---- MODULE Spec2Model ----
(***************************************************************************)
(* Model of the collaboration hub in src/src/index.ts: the per-connection  *)
(* gateway (authentication gate, authentication deadline, close cleanup),  *)
(* the project (session) registry, broadcast fan-out and the AI proxy.     *)
(*                                                                         *)
(* One action is one run-to-completion handler of the Node event loop.     *)
(* `out`, `emitted` and `posted` hold what the LAST handler wrote: the     *)
(* envelopes it put on each socket, its io.emit notifications and its      *)
(* axios.post calls; `last` names that handler and its input and `prev`    *)
(* is the registry it started from.  Every handler sets them anew.         *)
(*                                                                         *)
(* Transport (the ws package, Client.ws):                                  *)
(*  - readyState is OPEN, CLOSING or CLOSED; ws.close() on an OPEN socket  *)
(*    makes it CLOSING and is a no-op otherwise; the 'close' event comes   *)
(*    later, as a handler of its own;                                      *)
(*  - ws.send() on a socket that is not OPEN transmits nothing;            *)
(*  - after the server's own ws.close(1008) the peer's frames are still    *)
(*    delivered as 'message' events until the socket closes; after the     *)
(*    peer's close frame or a transport error no further 'message' event   *)
(*    is delivered.                                                        *)
(***************************************************************************)
EXTENDS Naturals, Sequences, FiniteSets, TLC

\* ---------------------------------------------------------------- bounds
MaxConns == 3          \* connections accepted in one run
MaxInFlight == 1       \* AI calls awaiting their provider at one time

\* ------------------------------------------------------------- constants
PolicyViolation == 1008

Conns == 1..MaxConns
NoConn == 0            \* "no excludeClient"
Users == {"u1", "u2"}
Sessions == {"P", "Q"}
Undefined == ""        \* undefined / falsy string

\* client === null
Null == [isAuthenticated |-> FALSE, userId |-> Undefined, projectId |-> Undefined]

\* Credentials a peer may present: a token signed for a user, a token that
\* fails verification, a verified token lacking userId/userName, no token,
\* and an authenticate envelope with no payload at all.
Tokens == {"jwt:u1", "jwt:u2", "forged", "incomplete", Undefined, "nopayload"}

VARIABLES
  readyState,   \* [Conns -> {"NONE","OPEN","CLOSING","CLOSED"}]; NONE: not accepted yet
  closeCode,    \* [Conns -> {0, 1008}]: code of the server's ws.close(code), 0 if none
  client,       \* [Conns -> Client]: the handler closure's `client`
  authTimeout,  \* [Conns -> {"pending","fired","off"}]: armed, ran, or never armed/cleared
  clients,      \* keys of the `clients` map
  projects,     \* the `projects` map: project id -> set of user ids
  inFlight,     \* connections with an AI call awaiting axios.post
  gotAuthSuccess, \* [Conns -> BOOLEAN]: auth_success was transmitted to c
  last,         \* the last handler: what ran, for which connection, on what input
  prev,         \* the `projects` map when the last handler started
  out,          \* [Conns -> Seq(envelope)] transmitted by the last handler
  emitted,      \* io.emit('project:update') notifications of the last handler
  posted        \* axios.post calls issued by the last handler

vars == <<readyState, closeCode, client, authTimeout, clients,
          projects, inFlight, gotAuthSuccess, last, prev, out, emitted, posted>>

conn == <<readyState, closeCode, client, authTimeout, gotAuthSuccess>>

\* ------------------------------------------------------------ transport
NoOut == [c \in Conns |-> <<>>]

Env(type, user, info) ==
  [type |-> type, user |-> user, info |-> info, isError |-> FALSE,
   requestId |-> Undefined]

\* message.requestId: every request of the model carries this one
RequestId == "r1"

\* ws.send(JSON.stringify(e)) on connection c, given the readyStates rs
WsSend(o, rs, c, e) ==
  IF rs[c] = "OPEN" THEN [o EXCEPT ![c] = Append(@, e)] ELSE o

\* ws.close(code)
WsCloseState(rs, c) ==
  IF rs[c] = "OPEN" THEN [rs EXCEPT ![c] = "CLOSING"] ELSE rs

WsCloseCode(rs, cc, c, code) ==
  IF rs[c] = "OPEN" THEN [cc EXCEPT ![c] = code] ELSE cc

\* a 'message' event can be delivered to c's handler
CanReceive(c) ==
  \/ readyState[c] = "OPEN"
  \/ readyState[c] = "CLOSING" /\ closeCode[c] = PolicyViolation

\* what `last` records of a handler run for connection c: the handler or
\* tool (op), its input (arg), and c's identity, project and socket state as
\* it started
Ran(op, c, arg) ==
  [op |-> op, c |-> c, arg |-> arg, env |-> {},
   user |-> client[c].userId, was |-> client[c].projectId, rs |-> readyState[c]]

\* ------------------------------------------------------------ utilities
\* sendResponse(client, payload, requestId)
SendResponse(o, rs, c, info, requestId) ==
  IF rs[c] = "OPEN"
    THEN [o EXCEPT ![c] = Append(@, [Env("mcp_tool_response", Undefined, info)
                                       EXCEPT !.requestId = requestId])]
    ELSE o

\* sendError that writes to every open socket
SendErrorToAll(o, rs, c, error, requestId) ==
  [d \in Conns |->
     IF rs[d] = "OPEN"
       THEN Append(o[d], [Env("mcp_tool_response", Undefined, error)
                            EXCEPT !.isError = TRUE, !.requestId = requestId])
       ELSE o[d]]

\* sendError(client, error, requestId)
SendError(o, rs, c, error, requestId) ==
  IF rs[c] = "OPEN"
    THEN [o EXCEPT ![c] = Append(@, [Env("mcp_tool_response", Undefined, error)
                                       EXCEPT !.isError = TRUE,
                                              !.requestId = requestId])]
    ELSE o

\* IsRecipient without the membership test
IsRecipientAnyUser(prj, cli, rs, d, projectId, exclude) ==
  /\ d \in clients
  /\ cli[d].isAuthenticated
  /\ cli[d].projectId = projectId
  /\ ~(exclude # NoConn /\ d = exclude)
  /\ rs[d] = "OPEN"

\* the test of broadcast's clients.forEach: client d is sent the message
IsRecipient(prj, cli, rs, d, projectId, exclude) ==
  /\ d \in clients
  /\ cli[d].isAuthenticated
  /\ cli[d].projectId = projectId
  /\ cli[d].userId \in prj[projectId]
  /\ ~(exclude # NoConn /\ d = exclude)
  /\ rs[d] = "OPEN"

\* broadcast(projectId, message, excludeClient): the sockets written
Broadcast(o, prj, cli, rs, projectId, message, exclude) ==
  IF projectId \notin DOMAIN prj THEN o
  ELSE [d \in Conns |->
          IF IsRecipient(prj, cli, rs, d, projectId, exclude)
            THEN Append(o[d], message) ELSE o[d]]

\* broadcast(...): its io.emit('project:update', ...)
BroadcastEmit(em, prj, projectId, message) ==
  IF projectId \notin DOMAIN prj THEN em
  ELSE Append(em, [projectId |-> projectId, eventType |-> message.type])

\* ------------------------------------------------------------- registry
\* new Map()
NoProjects == [p \in {} |-> {}]

\* Leave that tests the size before it removes the user
LeaveKeepsEmptyRow(prj, projectId, userId) ==
  IF projectId \notin DOMAIN prj THEN prj
  ELSE IF prj[projectId] = {}
    THEN [p \in DOMAIN prj \ {projectId} |-> prj[p]]
    ELSE [prj EXCEPT ![projectId] = @ \ {userId}]

\* projectClients.delete(userId); if (size === 0) projects.delete(projectId)
Leave(prj, projectId, userId) ==
  IF projectId \notin DOMAIN prj THEN prj
  ELSE IF prj[projectId] \ {userId} = {}
    THEN [p \in DOMAIN prj \ {projectId} |-> prj[p]]
    ELSE [prj EXCEPT ![projectId] = @ \ {userId}]

\* Join that fills a new row from the connections bound to the project
JoinCarriesBound(prj, projectId, userId) ==
  [p \in DOMAIN prj \cup {projectId} |->
     IF p = projectId
       THEN (IF p \in DOMAIN prj
               THEN prj[p]
               ELSE {client[d].userId : d \in {x \in clients : client[x].projectId = p}})
            \cup {userId}
       ELSE prj[p]]

\* if (!projects.has(id)) projects.set(id, new Set()); projects.get(id).add(userId)
Join(prj, projectId, userId) ==
  [p \in DOMAIN prj \cup {projectId} |->
     IF p = projectId
       THEN (IF p \in DOMAIN prj THEN prj[p] ELSE {}) \cup {userId}
       ELSE prj[p]]

\* ----------------------------------------------------------------- Init
Init ==
  /\ readyState = [c \in Conns |-> "NONE"]
  /\ closeCode = [c \in Conns |-> 0]
  /\ client = [c \in Conns |-> Null]
  /\ authTimeout = [c \in Conns |-> "off"]
  /\ clients = {}
  /\ projects = NoProjects
  /\ inFlight = {}
  /\ gotAuthSuccess = [c \in Conns |-> FALSE]
  /\ last = [op |-> "init", c |-> NoConn, arg |-> "", env |-> {}, user |-> Undefined,
             was |-> Undefined, rs |-> "NONE"]
  /\ prev = NoProjects
  /\ out = NoOut
  /\ emitted = << >>
  /\ posted = << >>

\* wss.on('connection'): connection ids are fresh, so the unaccepted
\* connections are interchangeable and the least one is taken
Connection(c) ==
  /\ last' = Ran("connection", c, "") /\ prev' = projects
  /\ readyState[c] = "NONE"
  /\ \A d \in Conns : d < c => readyState[d] # "NONE"
  /\ readyState' = [readyState EXCEPT ![c] = "OPEN"]
  /\ authTimeout' = [authTimeout EXCEPT ![c] = "pending"]
  /\ out' = NoOut /\ emitted' = << >> /\ posted' = << >>
  /\ UNCHANGED <<closeCode, client, clients, projects, inFlight, gotAuthSuccess>>

\* ------------------------------------------------------- authentication
\* jwt.verify(token, JWT_SECRET): the decoded claims, or a failure
JwtVerify(token) ==
  CASE token = "jwt:u1" -> [ok |-> TRUE, userId |-> "u1"]
    [] token = "jwt:u2" -> [ok |-> TRUE, userId |-> "u2"]
    [] token = "incomplete" -> [ok |-> TRUE, userId |-> Undefined]
    [] OTHER -> [ok |-> FALSE, userId |-> Undefined]

\* handleAuthenticate(ws, connectionId, payload): the Client it returns, or
\* Null when it throws (every failure path throws; none returns)
HandleAuthenticate(token) ==
  IF token = "nopayload" THEN Null                \* const { token } = undefined
  ELSE IF token = Undefined THEN Null             \* token missing or invalid
  ELSE IF ~JwtVerify(token).ok THEN Null          \* JsonWebTokenError
  ELSE IF JwtVerify(token).userId = Undefined THEN Null
  ELSE [isAuthenticated |-> TRUE, userId |-> JwtVerify(token).userId,
        projectId |-> Undefined]

\* clearTimeout(authTimeout)
ClearTimeout(t, c) == [t EXCEPT ![c] = "off"]

\* a failed authenticate that leaves the socket as it is
AuthFailureStaysOpen(rs, c) == rs

\* the socket after a failed authenticate: ws.close(1008, ...)
AuthFailureState(rs, c) == WsCloseState(rs, c)

\* the message handler's gate: the envelope is handled as unauthenticated
Unauthenticated(c) == client[c] = Null \/ ~client[c].isAuthenticated

\* ws.on('message'), unauthenticated, message.type === 'authenticate'
Authenticate(c, token) ==
  /\ last' = Ran("authenticate", c, token) /\ prev' = projects
  /\ CanReceive(c)
  /\ Unauthenticated(c)
  /\ authTimeout' = ClearTimeout(authTimeout, c)
  /\ LET made == HandleAuthenticate(token) IN
     IF made # Null
       THEN /\ client' = [client EXCEPT ![c] = made]
            /\ clients' = clients \cup {c}
            /\ out' = WsSend(NoOut, readyState, c, Env("auth_success", made.userId, ""))
            /\ gotAuthSuccess' = [gotAuthSuccess EXCEPT ![c] = @ \/ readyState[c] = "OPEN"]
            /\ UNCHANGED <<readyState, closeCode>>
       ELSE /\ out' = WsSend(NoOut, readyState, c, Env("auth_failure", Undefined, ""))
            /\ readyState' = AuthFailureState(readyState, c)
            /\ closeCode' = WsCloseCode(readyState, closeCode, c, PolicyViolation)
            /\ UNCHANGED <<client, clients, gotAuthSuccess>>
  /\ emitted' = << >> /\ posted' = << >>
  /\ UNCHANGED <<projects, inFlight>>

\* Envelope types other than authenticate that a peer may send
OtherTypes == {"mcp_tool_call", "chat_message", "ping"}

\* a gate that clears the deadline on every envelope, not only on authenticate
MessageBeforeAuthClearsTimeout(c, type) ==
  /\ last' = Ran(type, c, "") /\ prev' = projects
  /\ CanReceive(c)
  /\ Unauthenticated(c)
  /\ authTimeout' = ClearTimeout(authTimeout, c)
  /\ out' = WsSend(NoOut, readyState, c, Env("error", Undefined, "Authentication required"))
  /\ emitted' = << >> /\ posted' = << >>
  /\ UNCHANGED <<readyState, closeCode, client, gotAuthSuccess, clients, projects,
                 inFlight>>

\* ws.on('message'), unauthenticated, any other type: 'Authentication required'
MessageBeforeAuth(c, type) ==
  /\ last' = Ran(type, c, "") /\ prev' = projects
  /\ CanReceive(c)
  /\ Unauthenticated(c)
  /\ out' = WsSend(NoOut, readyState, c, Env("error", Undefined, "Authentication required"))
  /\ emitted' = << >> /\ posted' = << >>
  /\ UNCHANGED <<conn, clients, projects, inFlight>>

\* ws.on('message'): JSON.parse throws, the catch replies 'Invalid message format'
MalformedMessage(c) ==
  /\ last' = Ran("malformed", c, "") /\ prev' = projects
  /\ CanReceive(c)
  /\ out' = WsSend(NoOut, readyState, c, Env("error", Undefined, "Invalid message format"))
  /\ emitted' = << >> /\ posted' = << >>
  /\ UNCHANGED <<conn, clients, projects, inFlight>>

\* authTimeout fires: if (!client || !client.isAuthenticated) ws.close(1008)
AuthTimeout(c) ==
  /\ last' = Ran("timeout", c, readyState[c]) /\ prev' = projects
  /\ authTimeout[c] = "pending"
  /\ authTimeout' = [authTimeout EXCEPT ![c] = "fired"]
  /\ IF Unauthenticated(c)
       THEN /\ readyState' = WsCloseState(readyState, c)
            /\ closeCode' = WsCloseCode(readyState, closeCode, c, PolicyViolation)
       ELSE UNCHANGED <<readyState, closeCode>>
  /\ out' = NoOut /\ emitted' = << >> /\ posted' = << >>
  /\ UNCHANGED <<client, clients, projects, inFlight, gotAuthSuccess>>


\* ------------------------------------------------------------ tool calls
\* the handler runs for an authenticated client
Authenticated(c) == CanReceive(c) /\ ~Unauthenticated(c)

Quiet == emitted' = << >> /\ posted' = << >>

\* project:join that does not remove the user from the old project
JoinStaysInOld(prj, cl, projectId) == prj

\* project:join, lines 291-308: the registry after leaving the old project
JoinLeaveOld(prj, cl, projectId) ==
  IF cl.projectId # Undefined /\ cl.projectId # projectId
    THEN Leave(prj, cl.projectId, cl.userId)
    ELSE prj

\* user_left announced also when the project joined is the one already bound
JoinBroadcastsLeftOnRejoin(prj, cl, projectId) ==
  /\ cl.projectId # Undefined
  /\ cl.projectId \in DOMAIN prj
  /\ prj[cl.projectId] \ {cl.userId} # {}

\* project:join, line 299: user_left is broadcast to the old project
JoinBroadcastsLeft(prj, cl, projectId) ==
  /\ cl.projectId # Undefined /\ cl.projectId # projectId
  /\ cl.projectId \in DOMAIN prj
  /\ prj[cl.projectId] \ {cl.userId} # {}

\* handleMcpToolCall, toolName === 'project:join'
ProjectJoin(c, projectId) ==
  /\ last' = Ran("project:join", c, projectId) /\ prev' = projects
  /\ Authenticated(c)
  /\ posted' = << >>
  /\ IF projectId = Undefined
       THEN /\ out' = SendError(NoOut, readyState, c, "Missing or invalid projectId", RequestId)
            /\ emitted' = << >>
            /\ UNCHANGED <<client, projects>>
       ELSE LET cl == client[c]
                left == JoinBroadcastsLeft(projects, cl, projectId)
                userLeft == Env("user_left", cl.userId, cl.projectId)
                userJoined == Env("user_joined", cl.userId, projectId)
                prj1 == JoinLeaveOld(projects, cl, projectId)
                o1 == IF left
                        THEN Broadcast(NoOut, prj1, client, readyState, cl.projectId, userLeft, c)
                        ELSE NoOut
                e1 == IF left THEN BroadcastEmit(<< >>, prj1, cl.projectId, userLeft)
                              ELSE << >>
                cli2 == [client EXCEPT ![c].projectId = projectId]
                prj2 == Join(prj1, projectId, cl.userId)
                o2 == SendResponse(o1, readyState, c, "Joined project", RequestId)
            IN /\ client' = cli2
               /\ projects' = prj2
               /\ out' = Broadcast(o2, prj2, cli2, readyState, projectId, userJoined, c)
               /\ emitted' = BroadcastEmit(e1, prj2, projectId, userJoined)
  /\ UNCHANGED <<readyState, closeCode, authTimeout, gotAuthSuccess,
                 clients, inFlight>>

\* a project check that lets every call through
NotInProjectSkipped(cl) == FALSE

\* if (!client.projectId)
NotInProject(cl) == cl.projectId = Undefined

\* arguments of edit:send / cursor:update: well-formed or not
ArgKinds == {"valid", "invalid"}

\* a tool that broadcasts to the sender's project, sender excluded
RelayTool(c, tool, type, args, reply) ==
  /\ last' = Ran(tool, c, args) /\ prev' = projects
  /\ Authenticated(c)
  /\ posted' = << >>
  /\ LET cl == client[c]
         message == Env(type, cl.userId, cl.projectId)
     IN IF NotInProject(cl)
          THEN /\ out' = SendError(NoOut, readyState, c, "Not currently in a project", RequestId)
               /\ emitted' = << >>
        ELSE IF args # "valid"
          THEN /\ out' = SendError(NoOut, readyState, c, "Missing or invalid arguments", RequestId)
               /\ emitted' = << >>
        ELSE /\ out' = LET o1 == Broadcast(NoOut, projects, client, readyState,
                                           cl.projectId, message, c)
                       IN IF reply THEN SendResponse(o1, readyState, c, "Edit broadcasted", RequestId)
                                   ELSE o1
             /\ emitted' = BroadcastEmit(<< >>, projects, cl.projectId, message)
  /\ UNCHANGED <<conn, clients, projects, inFlight>>

\* handleMcpToolCall, toolName === 'edit:send'
EditSend(c, args) == RelayTool(c, "edit:send", "edit_applied", args, TRUE)

\* cursor:update that confirms to the sender as edit:send does
CursorUpdateReplies(c, args) ==
  RelayTool(c, "cursor:update", "cursor_moved", args, TRUE)

\* handleMcpToolCall, toolName === 'cursor:update'
CursorUpdate(c, args) == RelayTool(c, "cursor:update", "cursor_moved", args, FALSE)

\* handleMcpToolCall, any other tool name
UnknownTool(c) ==
  /\ last' = Ran("file:open", c, "") /\ prev' = projects
  /\ Authenticated(c)
  /\ out' = SendError(NoOut, readyState, c, "not implemented", RequestId)
  /\ Quiet
  /\ UNCHANGED <<conn, clients, projects, inFlight>>

\* chat payloads: a message, a blank message, no payload
ChatKinds == {"hello", " ", "nopayload"}

\* message.trim()
Trim(message) == IF message = " " THEN "" ELSE message

\* handleChatMessage(client, payload)
ChatMessage(c, message) ==
  /\ last' = Ran("chat_message", c, message) /\ prev' = projects
  /\ Authenticated(c)
  /\ posted' = << >>
  /\ LET cl == client[c]
         chat == Env("new_chat_message", cl.userId, cl.projectId)
     IN IF NotInProject(cl)
          THEN /\ out' = SendError(NoOut, readyState, c, "Not currently in a project", Undefined)
               /\ emitted' = << >>
        ELSE IF message = "nopayload"   \* const { message } = undefined throws
          THEN /\ out' = WsSend(NoOut, readyState, c,
                                Env("error", Undefined, "Invalid message format"))
               /\ emitted' = << >>
        ELSE IF Trim(message) = ""
          THEN /\ out' = SendError(NoOut, readyState, c, "Invalid chat message", Undefined)
               /\ emitted' = << >>
        ELSE /\ out' = Broadcast(NoOut, projects, client, readyState,
                                 cl.projectId, chat, NoConn)
             /\ emitted' = BroadcastEmit(<< >>, projects, cl.projectId, chat)
  /\ UNCHANGED <<conn, clients, projects, inFlight>>

\* a dispatcher that lets an authenticated connection authenticate again, as
\* another user
UnknownTypeReauthenticates(c, type) ==
  /\ last' = Ran(type, c, "") /\ prev' = projects
  /\ Authenticated(c)
  /\ out' = NoOut
  /\ Quiet
  /\ client' = IF type = "authenticate"
                 THEN [client EXCEPT ![c].userId = "u2"] ELSE client
  /\ UNCHANGED <<readyState, closeCode, authTimeout, gotAuthSuccess, clients,
                 projects, inFlight>>

\* ws.on('message'), authenticated, default: 'Unknown message type'
UnknownType(c, type) ==
  /\ last' = Ran(type, c, "") /\ prev' = projects
  /\ Authenticated(c)
  /\ out' = WsSend(NoOut, readyState, c,
                   [Env("error", Undefined, "Unknown message type")
                      EXCEPT !.requestId = RequestId])
  /\ Quiet
  /\ UNCHANGED <<conn, clients, projects, inFlight>>

\* what Node does with a promise rejection nothing handles: it warns and goes
\* on (--unhandled-rejections=warn, the default before Node 15), or raises it
\* as an uncaught exception, which ends the process (the default since)
UnhandledRejections == {"warn", "throw"}

\* handleMcpToolCall with no payload, no toolName or no arguments: the async
\* function rejects (TypeError) before any reply, and nothing awaits or
\* catches the promise.  When the process ends every socket goes down with it
\* and no handler runs again.
MalformedToolCall(c, mode) ==
  /\ last' = Ran("mcp_tool_call", c, "nopayload") /\ prev' = projects
  /\ Authenticated(c)
  /\ out' = NoOut
  /\ Quiet
  /\ IF mode = "warn"
       THEN UNCHANGED <<conn, clients, projects, inFlight>>
       ELSE /\ readyState' = [d \in Conns |-> "CLOSED"]
            /\ closeCode' = [d \in Conns |-> 0]
            /\ client' = [d \in Conns |-> Null]
            /\ authTimeout' = [d \in Conns |-> "off"]
            /\ gotAuthSuccess' = [d \in Conns |-> FALSE]
            /\ clients' = {}
            /\ projects' = NoProjects
            /\ inFlight' = {}

\* -------------------------------------------------------------- AI proxy
AiTools == {"ai:request_openai", "ai:request_anthropic", "ai:request_llama"}

\* toolName.includes('openai') / toolName.includes('anthropic')
Provider(tool) ==
  CASE tool = "ai:request_openai" -> "openai"
    [] tool = "ai:request_anthropic" -> "anthropic"
    [] OTHER -> Undefined

\* process.env.OPENAI_API_KEY || process.env.ANTHROPIC_API_KEY: the variable
\* whose value is used, Undefined when neither is set
ApiKey(e) ==
  IF "OPENAI_API_KEY" \in e THEN "OPENAI_API_KEY"
  ELSE IF "ANTHROPIC_API_KEY" \in e THEN "ANTHROPIC_API_KEY"
  ELSE Undefined

\* the try block up to axios.post: the call is issued
AiCallIssued(e, tool) == ApiKey(e) # Undefined /\ Provider(tool) # Undefined

\* process.env as a request may find it: the credentials that are configured
EnvConfigs == SUBSET {"OPENAI_API_KEY", "ANTHROPIC_API_KEY"}

\* handleMcpToolCall, toolName.startsWith('ai:request_'), up to the await;
\* process.env is read by the call, so it is an input of the step
AiRequest(c, tool, e) ==
  /\ last' = [Ran(tool, c, "") EXCEPT !.env = e] /\ prev' = projects
  /\ Authenticated(c)
  /\ Cardinality(inFlight) < MaxInFlight
  /\ c \notin inFlight
  /\ emitted' = << >>
  /\ IF client[c].projectId = Undefined
       THEN /\ out' = SendError(NoOut, readyState, c, "Not currently in a project", RequestId)
            /\ posted' = << >>
            /\ UNCHANGED inFlight
     ELSE IF ApiKey(e) = Undefined
       THEN /\ out' = SendError(NoOut, readyState, c, "API key is not configured", RequestId)
            /\ posted' = << >>
            /\ UNCHANGED inFlight
     ELSE IF ~AiCallIssued(e, tool)
       THEN /\ out' = SendError(NoOut, readyState, c, "Unknown AI provider", RequestId)
            /\ posted' = << >>
            /\ UNCHANGED inFlight
     ELSE /\ out' = NoOut
          /\ posted' = <<[provider |-> Provider(tool), key |-> ApiKey(e)]>>
          /\ inFlight' = inFlight \cup {c}
  /\ UNCHANGED <<conn, clients, projects>>

\* a continuation that writes the result to every open connection bound to
\* the caller's project
AiSettledToProject(c, ok) ==
  /\ last' = Ran("settled", c, IF ok THEN "result" ELSE "failed") /\ prev' = projects
  /\ c \in inFlight
  /\ inFlight' = inFlight \ {c}
  /\ out' = [d \in Conns |->
              IF readyState[d] = "OPEN" /\ client[d].projectId = client[c].projectId
                THEN <<[Env("mcp_tool_response", Undefined, "result")
                          EXCEPT !.requestId = RequestId]>>
                ELSE << >>]
  /\ Quiet
  /\ UNCHANGED <<conn, clients, projects>>

\* the continuation after await axios.post: the provider answered (ok) or the
\* call failed; the result or the error goes to the caller's socket
AiSettled(c, ok) ==
  /\ last' = Ran("settled", c, IF ok THEN "result" ELSE "failed") /\ prev' = projects
  /\ c \in inFlight
  /\ inFlight' = inFlight \ {c}
  /\ out' = IF ok THEN SendResponse(NoOut, readyState, c, "result", RequestId)
                  ELSE SendError(NoOut, readyState, c, "AI request failed", RequestId)
  /\ Quiet
  /\ UNCHANGED <<conn, clients, projects>>

\* ---------------------------------------------------------- termination
\* the peer's close frame arrives: the socket is CLOSING and no further
\* message is delivered
PeerClose(c) ==
  /\ last' = Ran("peerclose", c, "") /\ prev' = projects
  /\ readyState[c] = "OPEN"
  /\ readyState' = [readyState EXCEPT ![c] = "CLOSING"]
  /\ out' = NoOut /\ Quiet
  /\ UNCHANGED <<closeCode, client, authTimeout, gotAuthSuccess, clients, projects,
                 inFlight>>

\* ws.on('error'): clearTimeout(authTimeout); ws.close()
OnError(c) ==
  /\ last' = Ran("error", c, "") /\ prev' = projects
  /\ \/ readyState[c] = "OPEN"
     \/ readyState[c] = "CLOSING" /\ closeCode[c] = 0
  /\ authTimeout' = ClearTimeout(authTimeout, c)
  /\ readyState' = WsCloseState(readyState, c)
  /\ out' = NoOut /\ Quiet
  /\ UNCHANGED <<closeCode, client, gotAuthSuccess, clients, projects, inFlight>>

\* a cleanup that removes the user from every project
CloseLeaveEverywhere(prj, cl) ==
  IF cl.isAuthenticated /\ cl.projectId # Undefined
    THEN [p \in {q \in DOMAIN prj : prj[q] \ {cl.userId} # {}} |->
            prj[p] \ {cl.userId}]
    ELSE prj

\* a cleanup that keeps the user while another registered connection of the
\* same user is bound to the project
CloseLeaveLastOnly(prj, cl) ==
  IF cl.isAuthenticated /\ cl.projectId # Undefined
       /\ Cardinality({d \in clients : client[d].userId = cl.userId
                                        /\ client[d].projectId = cl.projectId}) < 2
    THEN Leave(prj, cl.projectId, cl.userId)
    ELSE prj

\* a cleanup that leaves the registry alone
CloseLeaveSkipped(prj, cl) == prj

\* ws.on('close'), lines 171-190: the registry after the cleanup
CloseLeave(prj, cl) ==
  IF cl.isAuthenticated /\ cl.projectId # Undefined
    THEN Leave(prj, cl.projectId, cl.userId)
    ELSE prj

\* ws.on('close'), line 181: user_left is broadcast
CloseBroadcastsLeft(prj, cl) ==
  /\ cl.isAuthenticated /\ cl.projectId # Undefined
  /\ cl.projectId \in DOMAIN prj
  /\ prj[cl.projectId] \ {cl.userId} # {}

\* ws.on('close').  Nothing runs for the connection afterwards (its timer is
\* cleared, its socket is CLOSED), so what its closure held is forgotten.
OnClose(c) ==
  /\ last' = Ran("close", c, "") /\ prev' = projects
  /\ readyState[c] = "CLOSING"
  /\ readyState' = [readyState EXCEPT ![c] = "CLOSED"]
  /\ authTimeout' = ClearTimeout(authTimeout, c)
  /\ closeCode' = [closeCode EXCEPT ![c] = 0]
  /\ gotAuthSuccess' = [gotAuthSuccess EXCEPT ![c] = FALSE]
  /\ client' = [client EXCEPT ![c] = Null]
  /\ posted' = << >>
  /\ LET cl == client[c]
         userLeft == Env("user_left", cl.userId, cl.projectId)
         prj1 == CloseLeave(projects, cl)
     IN /\ projects' = prj1
        /\ IF CloseBroadcastsLeft(projects, cl)
             THEN /\ out' = Broadcast(NoOut, prj1, client, readyState', cl.projectId,
                                      userLeft, c)
                  /\ emitted' = BroadcastEmit(<< >>, prj1, cl.projectId, userLeft)
             ELSE /\ out' = NoOut
                  /\ emitted' = << >>
        /\ clients' = IF cl.isAuthenticated THEN clients \ {c} ELSE clients
  /\ UNCHANGED inFlight

\* ----------------------------------------------------------------- Next
\* accept, authenticate, deadline, close
Lifecycle ==
  \/ \E c \in Conns : Connection(c)
  \/ \E c \in Conns, token \in Tokens : Authenticate(c, token)
  \/ \E c \in Conns : AuthTimeout(c)
  \/ \E c \in Conns : PeerClose(c)
  \/ \E c \in Conns : OnError(c)
  \/ \E c \in Conns : OnClose(c)

\* the envelopes that reach the registry and the broadcast engine
SessionOps ==
  \/ \E c \in Conns, projectId \in Sessions \cup {Undefined} : ProjectJoin(c, projectId)
  \/ \E c \in Conns, args \in ArgKinds : EditSend(c, args)
  \/ \E c \in Conns, args \in ArgKinds : CursorUpdate(c, args)
  \/ \E c \in Conns, message \in ChatKinds : ChatMessage(c, message)

\* the envelopes that are answered with an error, or not at all
Rejections ==
  \/ \E c \in Conns : MalformedMessage(c)
  \/ \E c \in Conns : UnknownTool(c)
  \/ \E c \in Conns, mode \in UnhandledRejections : MalformedToolCall(c, mode)
  \/ \E c \in Conns, type \in {"authenticate", "ping"} : UnknownType(c, type)

\* the AI proxy
AiOps ==
  \/ \E c \in Conns, tool \in AiTools, e \in EnvConfigs : AiRequest(c, tool, e)
  \/ \E c \in Conns, ok \in BOOLEAN : AiSettled(c, ok)

BeforeAuth == \E c \in Conns, type \in OtherTypes : MessageBeforeAuth(c, type)

\* the whole server
Next == Lifecycle \/ BeforeAuth \/ SessionOps \/ Rejections \/ AiOps

Spec == Init /\ [][Next]_vars

\* Peers that authenticate with a valid credential before their deadline:
\* no connection is ever closed by the server.
NextSession ==
  \/ \E c \in Conns : Connection(c)
  \/ \E c \in Conns, token \in {"jwt:u1", "jwt:u2"} : Authenticate(c, token)
  \/ \E c \in Conns : PeerClose(c)
  \/ \E c \in Conns : OnError(c)
  \/ \E c \in Conns : OnClose(c)
  \/ SessionOps

SpecSession == Init /\ [][NextSession]_vars

\* The authentication gate: every way a connection is accepted, authenticated,
\* refused and closed, the envelopes of unauthenticated connections, and the
\* tool calls whose effects and replies are observed: project:join, edit:send
\* and cursor:update.
NextGate ==
  \/ Lifecycle
  \/ BeforeAuth
  \/ \E c \in Conns, projectId \in Sessions : ProjectJoin(c, projectId)
  \/ \E c \in Conns : EditSend(c, "valid")
  \/ \E c \in Conns : CursorUpdate(c, "valid")

SpecGate == Init /\ [][NextGate]_vars

\* The AI proxy, for peers that authenticate with a valid credential, with the
\* handlers that change what the proxy reads: joins and closes.
NextAi ==
  \/ \E c \in Conns : Connection(c)
  \/ \E c \in Conns, token \in {"jwt:u1", "jwt:u2"} : Authenticate(c, token)
  \/ \E c \in Conns : PeerClose(c)
  \/ \E c \in Conns : OnClose(c)
  \/ \E c \in Conns, projectId \in Sessions : ProjectJoin(c, projectId)
  \/ AiOps

SpecAi == Init /\ [][NextAi]_vars

\* Every envelope a connection can send, well-formed or not, before and after
\* authentication, with one project to join.
NextReply ==
  \/ Lifecycle
  \/ BeforeAuth
  \/ Rejections
  \/ \E c \in Conns, projectId \in {"P", Undefined} : ProjectJoin(c, projectId)
  \/ \E c \in Conns, args \in ArgKinds : EditSend(c, args)
  \/ \E c \in Conns, args \in ArgKinds : CursorUpdate(c, args)
  \/ \E c \in Conns, message \in ChatKinds : ChatMessage(c, message)

SpecReply == Init /\ [][NextReply]_vars

\* every variable has its declared shape
TypeOK ==
  /\ readyState \in [Conns -> {"NONE", "OPEN", "CLOSING", "CLOSED"}]
  /\ closeCode \in [Conns -> {0, PolicyViolation}]
  /\ \A c \in Conns : client[c] = Null \/
       (client[c].isAuthenticated /\ client[c].userId \in Users
        /\ client[c].projectId \in Sessions \cup {Undefined})
  /\ authTimeout \in [Conns -> {"pending", "fired", "off"}]
  /\ clients \subseteq Conns
  /\ DOMAIN projects \subseteq Sessions
  /\ \A p \in DOMAIN projects : projects[p] \subseteq Users
  /\ Cardinality(inFlight) <= MaxInFlight

\* =================================================================
\* Claims
\* =================================================================

\* number of copies of envelope e in the sequence seq
Count(seq, e) == Cardinality({i \in DOMAIN seq : seq[i] = e})

\* d is an open, registered connection bound to project S whose user id is in
\* S's member set
InSession(d, S) ==
  /\ d \in clients
  /\ readyState[d] = "OPEN"
  /\ client[d].isAuthenticated
  /\ client[d].projectId = S
  /\ S \in DOMAIN projects
  /\ client[d].userId \in projects[S]

\* sendError's envelope
ErrorReply(error) ==
  [type |-> "mcp_tool_response", user |-> Undefined, info |-> error, isError |-> TRUE,
   requestId |-> RequestId]

\* ------------------------------------------------------------------ C1
\* the last handler took an mcp_tool_call or chat_message envelope
ToolOrChatOps ==
  {"mcp_tool_call", "chat_message", "project:join", "edit:send", "cursor:update",
   "file:open"} \cup AiTools

\* the last handler changed no registry row and no binding, reached no other
\* connection, notified nobody and started no AI call
NoEffect ==
  /\ projects = prev
  /\ client[last.c].projectId = last.was
  /\ \A d \in Conns \ {last.c} : out[d] = << >>
  /\ emitted = << >>
  /\ posted = << >>

\* C1: a tool-call or chat envelope handled for a connection that has not
\* been sent auth_success has no effect on the registry, on bindings, on other
\* connections or on the AI proxy.
C1_NoEffectBeforeAuthSuccess ==
  (last.op \in ToolOrChatOps /\ ~gotAuthSuccess[last.c]) => NoEffect

\* ------------------------------------------------------------------ C2
\* the last handler delivered e once to each target of broadcast(S, e,
\* exclude) and to nobody else
DeliveredOnce(S, e, exclude) ==
  \A d \in Conns :
    Count(out[d], e) = IF InSession(d, S) /\ d # exclude THEN 1 ELSE 0

\* the last handler left project last.was with members remaining
LeftWithPeers ==
  /\ last.was # Undefined
  /\ last.was \in DOMAIN prev
  /\ prev[last.was] \ {last.user} # {}

\* C2: every broadcast(S, e, exclude) delivers e exactly once to every open
\* authenticated connection bound to S whose user id is a member of S, to no
\* other connection, and not to exclude.
C2_BroadcastExactlyOnce ==
  LET c == last.c
      u == last.user
      P == last.was
  IN /\ (last.op = "edit:send" /\ last.arg = "valid" /\ P # Undefined)
          => DeliveredOnce(P, Env("edit_applied", u, P), c)
     /\ (last.op = "cursor:update" /\ last.arg = "valid" /\ P # Undefined)
          => DeliveredOnce(P, Env("cursor_moved", u, P), c)
     /\ (last.op = "chat_message" /\ last.arg = "hello" /\ P # Undefined)
          => DeliveredOnce(P, Env("new_chat_message", u, P), NoConn)
     /\ (last.op = "project:join" /\ last.arg # Undefined)
          => /\ DeliveredOnce(last.arg, Env("user_joined", u, last.arg), c)
             /\ (LeftWithPeers /\ P # last.arg)
                  => DeliveredOnce(P, Env("user_left", u, P), c)
     /\ (last.op = "close" /\ last.user # Undefined /\ LeftWithPeers)
          => DeliveredOnce(P, Env("user_left", u, P), c)

\* an edit reached a peer, not its sender, and not a connection of the same
\* project that is no longer open
C2_Witness ==
  \E c, d, g \in clients, S \in DOMAIN projects :
    LET e == Env("edit_applied", client[c].userId, S) IN
    /\ last.op = "edit:send" /\ last.c = c
    /\ Cardinality({c, d, g}) = 3
    /\ client[c].projectId = S /\ client[d].projectId = S /\ client[g].projectId = S
    /\ client[g].userId \in projects[S]
    /\ readyState[g] = "CLOSING"
    /\ Count(out[d], e) = 1
    /\ Count(out[c], e) = 0
    /\ Count(out[g], e) = 0

\* ------------------------------------------------------------------ C3
\* C3: in every state a project id is a key of the registry only with a
\* non-empty member set.
C3_RowIffNonEmpty == \A p \in DOMAIN projects : projects[p] # {}

\* the last handler deleted a row
C3_Witness ==
  /\ last.op \in {"project:join", "close"}
  /\ last.was \in DOMAIN prev
  /\ last.was \notin DOMAIN projects

\* ------------------------------------------------------------------ C4
\* the last handler is a join of project Q by a connection bound to another
\* project
Switched == 
  /\ last.op = "project:join"
  /\ last.arg # Undefined
  /\ last.was # Undefined
  /\ last.was # last.arg

\* C4: join(Q) by a connection bound to P # Q: each open connection still in
\* P (bound to P, its user a member) other than the joiner is sent one
\* user_left; P's row is deleted if and only if removing the joiner's user id
\* empties it, and otherwise loses just that user id; each open connection
\* in Q other than the joiner is sent one user_joined; the joiner is sent
\* neither.
C4_SwitchLeavesAndJoins ==
  Switched =>
    LET c == last.c
        u == last.user
        P == last.was
        Q == last.arg
        userLeft == Env("user_left", u, P)
        userJoined == Env("user_joined", u, Q)
    IN /\ \A d \in Conns \ {c} : InSession(d, P) => Count(out[d], userLeft) = 1
       /\ \A d \in Conns \ {c} : InSession(d, Q) => Count(out[d], userJoined) = 1
       /\ Count(out[c], userLeft) = 0 /\ Count(out[c], userJoined) = 0
       /\ P \in DOMAIN prev =>
            /\ P \notin DOMAIN projects <=> prev[P] \ {u} = {}
            /\ P \in DOMAIN projects => projects[P] = prev[P] \ {u}
       /\ client[c].projectId = Q /\ u \in projects[Q]

\* a switch from P to Q told a peer left in P and a peer found in Q
C4_Witness ==
  /\ Switched
  /\ \E d, g \in Conns \ {last.c} :
       /\ InSession(d, last.was) /\ InSession(g, last.arg)
       /\ out[d] = <<Env("user_left", last.user, last.was)>>
       /\ out[g] = <<Env("user_joined", last.user, last.arg)>>

\* ------------------------------------------------------------------ C5
\* the last handler took last.user out of project last.was: a close of a
\* bound connection, or a join of another project
Left ==
  /\ last.was # Undefined
  /\ \/ last.op = "close" /\ last.user # Undefined
     \/ Switched

\* C5: a handler that empties a member set deletes the row, and a join of an
\* id that has no row creates one whose member set is the joiner's user id
\* alone.
C5_EmptiedDeletedAndFreshOnRejoin ==
  /\ (Left /\ last.was \in DOMAIN prev /\ prev[last.was] \ {last.user} = {})
       => last.was \notin DOMAIN projects
  /\ (last.op = "project:join" /\ last.arg # Undefined /\ last.arg \notin DOMAIN prev)
       => /\ last.arg \in DOMAIN projects
          /\ projects[last.arg] = {last.user}

\* a user joins an id that has no row although a connection of another user is
\* still bound to it: that user is not carried over
C5_Witness ==
  /\ last.op = "project:join" /\ last.arg # Undefined
  /\ last.arg \notin DOMAIN prev
  /\ projects[last.arg] = {last.user}
  /\ \E d \in clients : /\ client[d].projectId = last.arg
                        /\ client[d].userId # last.user

\* ------------------------------------------------------------------ C6
\* C6: edit:send or cursor:update from an authenticated connection (one that
\* was sent auth_success) bound to no project sends the not-in-project error
\* to the sender and nothing to anyone else, broadcasts nothing and leaves
\* the registry and the binding as they were.
C6_NotInSessionError ==
  (/\ last.op \in {"edit:send", "cursor:update"}
   /\ gotAuthSuccess[last.c]
   /\ last.was = Undefined)
    => /\ out = [NoOut EXCEPT ![last.c] = <<ErrorReply("Not currently in a project")>>]
       /\ emitted = << >>
       /\ projects = prev
       /\ client[last.c].projectId = Undefined

\* the error was sent while another connection is in a project
C6_Witness ==
  /\ last.op \in {"edit:send", "cursor:update"}
  /\ gotAuthSuccess[last.c]
  /\ last.was = Undefined
  /\ out[last.c] = <<ErrorReply("Not currently in a project")>>
  /\ \E d \in Conns \ {last.c}, S \in Sessions : InSession(d, S)

\* ------------------------------------------------------------------ C7
\* C7: a valid chat message from an open authenticated connection bound to S
\* is delivered to the sender's own connection, in every reachable state.
C7_ChatReachesSender ==
  (/\ last.op = "chat_message" /\ last.arg = "hello"
   /\ last.was # Undefined
   /\ readyState[last.c] = "OPEN")
    => Count(out[last.c], Env("new_chat_message", last.user, last.was)) = 1

\* ------------------------------------------------------------------ C8
\* C8: a valid cursor:update from a connection of user u bound to S sends
\* exactly one envelope, cursor_moved carrying u, to every other open
\* connection in S (bound to S, its user a member), and no envelope at all
\* to the issuing connection.
C8_CursorMovedToPeersOnly ==
  (/\ last.op = "cursor:update" /\ last.arg = "valid"
   /\ last.was # Undefined)
    => /\ \A d \in Conns \ {last.c} :
            InSession(d, last.was)
              => out[d] = <<Env("cursor_moved", last.user, last.was)>>
       /\ out[last.c] = << >>

\* u1 moved its cursor and a connection of u2 got the one envelope
C8_Witness ==
  /\ last.op = "cursor:update" /\ last.user = "u1"
  /\ out[last.c] = << >>
  /\ \E d \in Conns \ {last.c} :
       /\ client[d].userId = "u2"
       /\ InSession(d, last.was)
       /\ out[d] = <<Env("cursor_moved", "u1", last.was)>>

\* ------------------------------------------------------------------ C9
\* the environment variable that holds a provider's own credential
OwnCredential(provider) ==
  IF provider = "openai" THEN "OPENAI_API_KEY" ELSE "ANTHROPIC_API_KEY"

\* C9: an ai:request_<provider> issued while that provider's own credential
\* is not configured makes no outbound call and sends the sender an error.
C9_NoCallWithoutOwnCredential ==
  (/\ last.op \in {"ai:request_openai", "ai:request_anthropic"}
   /\ last.was # Undefined
   /\ OwnCredential(Provider(last.op)) \notin last.env)
    => /\ posted = << >>
       /\ readyState[last.c] = "OPEN"
            => out[last.c] = <<ErrorReply("API key is not configured")>>

\* ----------------------------------------------------------------- C10
\* C10: when the deadline fires on an open, unauthenticated connection the
\* socket is closed with status 1008; a socket closed with 1008 is sent
\* nothing afterwards; and no connection is open and unauthenticated without
\* its deadline pending.
C10_DeadlineCloses ==
  /\ (last.op = "timeout" /\ last.arg = "OPEN" /\ last.user = Undefined)
       => /\ readyState[last.c] = "CLOSING"
          /\ closeCode[last.c] = PolicyViolation
          /\ out = NoOut
  /\ \A c \in Conns :
       closeCode[c] = PolicyViolation
         => \/ out[c] = << >>
            \/ /\ last.op = "authenticate" /\ last.c = c
               /\ out[c] = <<Env("auth_failure", Undefined, "")>>
  /\ \A c \in Conns :
       (readyState[c] = "OPEN" /\ Unauthenticated(c)) => authTimeout[c] = "pending"

\* the deadline closed a connection that had sent envelopes before, and an
\* envelope it sends afterwards is answered with nothing
C10_Witness ==
  \E c \in Conns :
    /\ authTimeout[c] = "fired"
    /\ readyState[c] = "CLOSING" /\ closeCode[c] = PolicyViolation
    /\ Unauthenticated(c)
    /\ last.op = "mcp_tool_call" /\ last.c = c
    /\ out = NoOut

\* ----------------------------------------------------------------- C11
\* the last handler processed an envelope (of any type, or unparsable)
EnvelopeOps == ToolOrChatOps \cup {"authenticate", "ping", "malformed"}

\* C11: an envelope handled for an authenticated connection leaves its socket
\* as it was; a socket that was open when a handler started is no longer
\* open afterwards only if the transport closed it (the peer's close frame,
\* or a socket error, which carry no status of the server's) or if the
\* server closed it with 1008 on the deadline of an unauthenticated
\* connection or on a failed authenticate; and a connection that was sent
\* auth_success is never closed with 1008.
C11_ServerClosesOnlyForPolicy ==
  /\ (last.op \in EnvelopeOps /\ last.user # Undefined)
       => readyState[last.c] = last.rs
  /\ (last.rs = "OPEN" /\ readyState[last.c] # "OPEN")
       => \/ last.op \in {"peerclose", "error"} /\ closeCode[last.c] = 0
          \/ /\ last.op = "timeout" /\ last.user = Undefined
             /\ closeCode[last.c] = PolicyViolation
          \/ /\ last.op = "authenticate" /\ last.user = Undefined
             /\ HandleAuthenticate(last.arg) = Null
             /\ closeCode[last.c] = PolicyViolation
  /\ \A c \in Conns : gotAuthSuccess[c] => closeCode[c] = 0

\* ----------------------------------------------------------------- C12
\* e is an error or failure envelope
IsErrorEnvelope(e) == e.type \in {"error", "auth_failure"} \/ e.isError

\* the last handler took, from an authenticated connection whose socket was
\* open, an envelope that fails validation or a business rule
Rejected ==
  /\ last.user # Undefined /\ last.rs = "OPEN"
  /\ \/ last.op \in {"malformed", "authenticate", "ping", "file:open"}
     \/ last.op = "mcp_tool_call" /\ last.arg = "nopayload"
     \/ last.op = "project:join" /\ last.arg = Undefined
     \/ last.op \in {"edit:send", "cursor:update"}
          /\ (last.was = Undefined \/ last.arg = "invalid")
     \/ last.op = "chat_message"
          /\ (last.was = Undefined \/ last.arg \in {" ", "nopayload"})

\* C12: every envelope of an authenticated connection that fails validation
\* or a business rule is answered with exactly one error envelope, sent to
\* that connection, and with nothing else.
C12_OneErrorReply ==
  Rejected =>
    /\ Len(out[last.c]) = 1
    /\ IsErrorEnvelope(out[last.c][1])
    /\ \A d \in Conns \ {last.c} : out[d] = << >>

\* ----------------------------------------------------------------- C13
\* C13: no error or failure envelope is written to a connection other than
\* the one whose envelope (or whose AI call) the handler was serving.
C13_ErrorsToOriginOnly ==
  \A d \in Conns \ {last.c} :
    \A i \in DOMAIN out[d] : ~IsErrorEnvelope(out[d][i])

\* a member's invalid edit was answered with an error while a peer in the
\* same project got nothing
C13_Witness ==
  /\ last.op = "edit:send" /\ last.arg = "invalid"
  /\ Len(out[last.c]) = 1 /\ IsErrorEnvelope(out[last.c][1])
  /\ \E d \in Conns \ {last.c} : InSession(d, last.was) /\ out[d] = << >>

\* ----------------------------------------------------------------- C14
\* C14: every reply (mcp_tool_response or error) that the handler of a tool
\* call, a chat message or an envelope of unknown type writes to the
\* requesting connection carries the requestId of the request.
C14_RequestIdEchoed ==
  (/\ last.op \in ToolOrChatOps \cup {"authenticate", "ping"}
   /\ last.user # Undefined)
    => \A i \in DOMAIN out[last.c] :
         out[last.c][i].type \in {"mcp_tool_response", "error"}
           => out[last.c][i].requestId = RequestId

\* ----------------------------------------------------------------- C15
\* the project:update notification of a broadcast to project S of type t
Update(S, t) == [projectId |-> S, eventType |-> t]

\* the notifications due for the broadcast calls of the last handler, one per
\* call, in the order of the calls
UpdatesDue ==
  CASE last.op = "edit:send" /\ last.arg = "valid" /\ last.was # Undefined
         -> <<Update(last.was, "edit_applied")>>
    [] last.op = "cursor:update" /\ last.arg = "valid" /\ last.was # Undefined
         -> <<Update(last.was, "cursor_moved")>>
    [] last.op = "chat_message" /\ last.arg = "hello" /\ last.was # Undefined
         -> <<Update(last.was, "new_chat_message")>>
    [] last.op = "project:join" /\ last.arg # Undefined
         -> (IF LeftWithPeers /\ last.was # last.arg
               THEN <<Update(last.was, "user_left")>> ELSE << >>)
            \o <<Update(last.arg, "user_joined")>>
    [] last.op = "close" /\ last.user # Undefined /\ LeftWithPeers
         -> <<Update(last.was, "user_left")>>
    [] OTHER -> << >>

\* C15: every call of broadcast pushes exactly one project:update
\* notification, whatever the number of recipients and also when the project
\* id has no row in the registry.
C15_OneUpdatePerBroadcast == emitted = UpdatesDue

\* ----------------------------------------------------------------- C16
\* the user ids of the registered connections bound to S; a connection counts
\* as open until its close handler has run
BoundUsers(S) ==
  {client[d].userId : d \in {x \in clients : client[x].projectId = S}}

\* C16: in every state the member set of every project in the registry is
\* the set of user ids that have at least one open connection bound to it.
C16_MembersAreBoundUsers ==
  \A S \in DOMAIN projects : projects[S] = BoundUsers(S)

\* ----------------------------------------------------------------- C17
\* the user a credential identifies, Undefined when it is missing, forged or
\* incomplete or when the envelope has no payload
Bearer(token) ==
  CASE token = "jwt:u1" -> "u1"
    [] token = "jwt:u2" -> "u2"
    [] OTHER -> Undefined

\* C17: an authenticate envelope on an open unauthenticated connection
\* either succeeds: the connection is authenticated as the credential's
\* user, is in the live registry and is sent auth_success; or fails: it is
\* sent auth_failure, is closed with 1008 and is not in the live registry;
\* and a connection closed with 1008 is never in the live registry.
C17_AuthenticateOutcomes ==
  /\ (last.op = "authenticate" /\ last.user = Undefined /\ last.rs = "OPEN")
       => LET c == last.c
              u == Bearer(last.arg)
          IN IF u # Undefined
               THEN /\ client[c].isAuthenticated /\ client[c].userId = u
                    /\ c \in clients
                    /\ readyState[c] = "OPEN"
                    /\ out = [NoOut EXCEPT ![c] = <<Env("auth_success", u, "")>>]
               ELSE /\ Unauthenticated(c)
                    /\ c \notin clients
                    /\ readyState[c] = "CLOSING" /\ closeCode[c] = PolicyViolation
                    /\ out = [NoOut EXCEPT ![c] = <<Env("auth_failure", Undefined, "")>>]
  /\ \A c \in Conns : closeCode[c] = PolicyViolation => c \notin clients

\* ----------------------------------------------------------------- C18
\* C18: an envelope of a type other than authenticate on an open
\* unauthenticated connection is answered with the error 'Authentication
\* required', sent to that connection only, and leaves the connection open,
\* unauthenticated, out of the live registry and with its deadline pending.
C18_AuthenticationRequired ==
  (last.op \in OtherTypes /\ last.user = Undefined /\ last.rs = "OPEN")
    => LET c == last.c
       IN /\ out = [NoOut EXCEPT
                      ![c] = <<Env("error", Undefined, "Authentication required")>>]
          /\ readyState[c] = "OPEN" /\ closeCode[c] = 0
          /\ Unauthenticated(c)
          /\ c \notin clients
          /\ authTimeout[c] = "pending"
          /\ projects = prev /\ emitted = << >>

\* a tool call was refused before authentication while another connection is
\* in a project
C18_Witness ==
  /\ last.op = "mcp_tool_call" /\ last.user = Undefined /\ last.rs = "OPEN"
  /\ out[last.c] = <<Env("error", Undefined, "Authentication required")>>
  /\ authTimeout[last.c] = "pending"
  /\ \E d \in Conns \ {last.c}, S \in Sessions : InSession(d, S)

\* ----------------------------------------------------------------- C19
\* the step is the close handler of an authenticated connection
ClosesAuthenticated == last'.op = "close" /\ last'.user # Undefined

\* C19: the close handler of an authenticated connection c of user u takes
\* c out of the live registry; if c was bound to S and S has a row, u is
\* removed from S's member set, the row is deleted if that empties it, and
\* otherwise user_left is sent once to each remaining connection of S (open,
\* bound to S, its user still a member) and to no one else; every other row
\* and every other connection's state are as before.
C19_CloseCleanup ==
  [][ClosesAuthenticated =>
       LET c == last'.c
           u == last'.user
           S == last'.was
           userLeft == Env("user_left", u, S)
       IN /\ c \in clients /\ clients' = clients \ {c}
          /\ (S # Undefined /\ S \in DOMAIN projects) =>
               IF projects[S] \ {u} = {}
                 THEN S \notin DOMAIN projects' /\ out' = NoOut
                 ELSE /\ S \in DOMAIN projects'
                      /\ projects'[S] = projects[S] \ {u}
                      /\ \A d \in Conns :
                           out'[d] = IF /\ d # c /\ d \in clients'
                                        /\ readyState'[d] = "OPEN"
                                        /\ client'[d].projectId = S
                                        /\ client'[d].userId \in projects'[S]
                                       THEN <<userLeft>> ELSE << >>
          /\ (S = Undefined \/ S \notin DOMAIN projects) => out' = NoOut
          /\ DOMAIN projects' \subseteq DOMAIN projects
          /\ \A T \in DOMAIN projects \ {S} :
               T \in DOMAIN projects' /\ projects'[T] = projects[T]
          /\ \A d \in Conns \ {c} :
               /\ client'[d] = client[d]
               /\ readyState'[d] = readyState[d]
               /\ closeCode'[d] = closeCode[d]
               /\ authTimeout'[d] = authTimeout[d]
               /\ gotAuthSuccess'[d] = gotAuthSuccess[d]
          /\ inFlight' = inFlight
     ]_vars

\* a connection closed, a peer in its project was told, and its user is still
\* a member of another project through another connection
C19_Witness ==
  /\ last.op = "close" /\ last.user # Undefined
  /\ last.c \notin clients
  /\ last.was \in DOMAIN projects
  /\ \E d \in Conns \ {last.c} :
       /\ InSession(d, last.was)
       /\ out[d] = <<Env("user_left", last.user, last.was)>>
  /\ \E T \in DOMAIN projects \ {last.was} : last.user \in projects[T]

\* ----------------------------------------------------------------- C20
\* the envelope types that broadcast carries
BroadcastTypes ==
  {"user_joined", "user_left", "edit_applied", "cursor_moved", "new_chat_message"}

\* connection d is bound to a project of which its user is not a member
Evicted(d) ==
  /\ d \in clients
  /\ client[d].projectId # Undefined
  /\ \/ client[d].projectId \notin DOMAIN projects
     \/ client[d].userId \notin projects[client[d].projectId]

\* C20: when a connection of user u leaves S (close, or join of another
\* project) u is no longer in S's member set, whatever other connections of
\* u are bound to S; a connection bound to S whose user is not a member is
\* sent no broadcast; and a user becomes a member of S only by a
\* project:join S from one of its connections.
C20_LeaveEvictsUser ==
  /\ Left => \/ last.was \notin DOMAIN projects
             \/ last.user \notin projects[last.was]
  /\ \A d \in Conns :
       Evicted(d) => \A i \in DOMAIN out[d] : out[d][i].type \notin BroadcastTypes
  /\ \A S \in DOMAIN projects :
       \A u \in projects[S] :
         \/ S \in DOMAIN prev /\ u \in prev[S]
         \/ last.op = "project:join" /\ last.arg = S /\ last.user = u

\* u2 chats in a project where an open connection of u1 is still bound after
\* another connection of u1 left: the sender gets the message, u1 does not
C20_Witness ==
  /\ last.op = "chat_message" /\ last.arg = "hello" /\ last.user = "u2"
  /\ out[last.c] = <<Env("new_chat_message", "u2", last.was)>>
  /\ \E d \in Conns \ {last.c} :
       /\ Evicted(d)
       /\ readyState[d] = "OPEN"
       /\ client[d].userId = "u1"
       /\ client[d].projectId = last.was
       /\ out[d] = << >>

\* ----------------------------------------------------------------- C21
\* the last handler is an AI tool call or the continuation of one
AiOp == last.op \in AiTools \cup {"settled"}

\* C21: an AI tool call and its continuation write to no connection but the
\* caller, write at most one envelope, a reply (mcp_tool_response), to the
\* caller and none when its socket is not open, notify nobody, and leave
\* the registry and the caller's binding as they were.
C21_AiReplyToCallerOnly ==
  AiOp =>
    /\ \A d \in Conns \ {last.c} : out[d] = << >>
    /\ Len(out[last.c]) <= 1
    /\ \A i \in DOMAIN out[last.c] : out[last.c][i].type = "mcp_tool_response"
    /\ readyState[last.c] # "OPEN" => out = NoOut
    /\ emitted = << >>
    /\ projects = prev
    /\ client[last.c].projectId = last.was

\* the result of a call arrived and went to the caller, not to the peer in
\* the caller's project
C21_Witness ==
  /\ last.op = "settled" /\ last.arg = "result"
  /\ Len(out[last.c]) = 1
  /\ \E d \in Conns \ {last.c} : InSession(d, last.was) /\ out[d] = << >>

\* ----------------------------------------------------------------- C22
\* C22: in every step, a connection that is authenticated and is not closed
\* by the step stays authenticated with the same user id, and stays bound to
\* some project if it was bound to one; and an authenticate envelope from an
\* authenticated connection is answered with the error 'Unknown message
\* type' only.
C22_StateMovesForward ==
  [][/\ \A c \in Conns :
          (client[c].isAuthenticated /\ readyState'[c] # "CLOSED")
            => /\ client'[c].isAuthenticated
               /\ client'[c].userId = client[c].userId
               /\ client[c].projectId # Undefined => client'[c].projectId # Undefined
     /\ (last'.op = "authenticate" /\ last'.user # Undefined /\ last'.rs = "OPEN")
          => out' = [NoOut EXCEPT ![last'.c] =
                       <<[Env("error", Undefined, "Unknown message type")
                            EXCEPT !.requestId = RequestId]>>]
    ]_vars

\* a connection in a project sent authenticate again and is who and where it
\* was
C22_Witness ==
  /\ last.op = "authenticate" /\ last.user = "u1" /\ last.was = "P"
  /\ client[last.c].isAuthenticated
  /\ client[last.c].userId = "u1"
  /\ client[last.c].projectId = "P"
  /\ Len(out[last.c]) = 1 /\ out[last.c][1].type = "error"

\* ----------------------------------------------------------------- C23
\* the step is a project:join of the project the connection is bound to, by
\* a user that is a member of it
Rejoins ==
  /\ last'.op = "project:join"
  /\ last'.arg # Undefined /\ last'.arg = last'.was
  /\ last'.arg \in DOMAIN projects
  /\ last'.user \in projects[last'.arg]

\* C23: a project:join S by a connection bound to S whose user is a member
\* of S leaves the registry and every connection's binding as they were,
\* and sends and notifies no user_left.
C23_JoinIdempotent ==
  [][Rejoins =>
       /\ projects' = projects
       /\ client' = client
       /\ clients' = clients
       /\ \A d \in Conns : \A i \in DOMAIN out'[d] : out'[d][i].type # "user_left"
       /\ \A i \in DOMAIN emitted' : emitted'[i].eventType # "user_left"
     ]_vars

\* a member joined its project again while a peer of another user is in it
C23_Witness ==
  /\ last.op = "project:join" /\ last.arg = last.was
  /\ last.arg \in DOMAIN prev /\ last.user \in prev[last.arg]
  /\ projects = prev
  /\ Cardinality(projects[last.arg]) = 2
  /\ \E d \in Conns \ {last.c} :
       InSession(d, last.arg) /\ client[d].userId # last.user

\* ----------------------------------------------------------------- C24
\* d is a live connection: authenticated, in the live registry, and its close
\* handler has not run (its socket is open, or closing with the close event
\* still to come)
Live(d) ==
  /\ d \in clients
  /\ client[d].isAuthenticated
  /\ readyState[d] \in {"OPEN", "CLOSING"}

UserLeftAnnounced ==
  \/ \E d \in Conns : \E i \in DOMAIN out[d] : out[d][i].type = "user_left"
  \/ \E i \in DOMAIN emitted : emitted[i].eventType = "user_left"

\* C25: user_left is announced only by a leave (close, or join of another
\* project) of a connection whose user was a member of the project it
\* leaves when the handler started.
C25_UserLeftOnlyForMembers ==
  UserLeftAnnounced =>
    /\ Left
    /\ last.was \in DOMAIN prev
    /\ last.user \in prev[last.was]

\* ----------------------------------------------------------------- C26
\* the envelope types that carry a user's content
ContentTypes == {"edit_applied", "cursor_moved", "new_chat_message"}

\* the last handler delivered content to some connection
ContentDelivered ==
  \E d \in Conns : \E i \in DOMAIN out[d] : out[d][i].type \in ContentTypes

\* C26: content (edit_applied, cursor_moved, new_chat_message) is delivered
\* only by the handler of an envelope whose sender's user id was a member of
\* the sender's project when the handler started, and only to connections in
\* that project.
C26_ContentOnlyFromMembers ==
  ContentDelivered =>
    /\ last.op \in {"edit:send", "cursor:update", "chat_message"}
    /\ last.was \in DOMAIN prev
    /\ last.user \in prev[last.was]
    /\ \A d \in Conns :
         (\E i \in DOMAIN out[d] : out[d][i].type \in ContentTypes)
           => InSession(d, last.was)

====
